---------------------------- MODULE Spec2Model ----------------------------
(***************************************************************************)
(* CRC-32C: the two-lane folding routine option_14_golden_amd, the         *)
(* generator of its constant table, the single-lane 8-byte routine and the *)
(* bit-serial reference.                                                   *)
(*                                                                         *)
(* A machine word is modelled as the set of the positions of its 1 bits    *)
(* (bit 0 is the least significant): TLC's integers stop at 2^31 - 1, and  *)
(* bitwise XOR is symmetric difference.  A 32-bit value is a subset of     *)
(* 0..31, a 64-bit value a subset of 0..63.                                *)
(***************************************************************************)
EXTENDS Integers, Sequences, FiniteSets, Bags, TLC

(***************************************************************************)
(* Bounds of the model.                                                    *)
(***************************************************************************)
\* every length 0 .. MaxSmallLen is tried at every alignment
MaxSmallLen == 24
\* number of buffer contents tried
NumPatterns == 2
\* compute_golden_lut_amd is called with n in 1 .. MaxLutBlocks (and with 128)
MaxLutBlocks == 3
\* every length 0 .. MaxSeedLen is cut at every split point
MaxSeedLen == 6

(***************************************************************************)
(* Words.                                                                  *)
(***************************************************************************)
\* the 1 bits of the 16-bit number v, moved up by sh positions
BitsOf(v, sh) == {sh + j : j \in {k \in 0..15 : (v \div 2^k) % 2 = 1}}

\* the 32-bit constant 0x<hi><lo> given as its two 16-bit halves
U32(hi, lo) == BitsOf(lo, 0) \cup BitsOf(hi, 16)

\* a ^ b
Xor(a, b) == (a \ b) \cup (b \ a)

\* R >> 1
Shr1(r) == {k - 1 : k \in r \ {0}}

\* (uint32_t) x
Low32(x) == {k \in x : k < 32}

\* F(v), with v evaluated once and before F: TLC evaluates the argument of an
\* operator where it is used, each time it is used; a bound variable is a
\* value.
Then(v, F(_)) == CHOOSE y \in {F(x) : x \in {v}} : TRUE

(***************************************************************************)
(* Program constants.                                                      *)
(***************************************************************************)
\* constexpr int32_t P = 0x82f63b78, converted to uint32_t where it is used
P == U32(\H82f6, \H3b78)

\* the polynomial of naive_methods_cpp.cpp
P_naive == U32(\H82f6, \H3b78)

\* the polynomial the x86 crc32 instruction hardcodes
P_hardware == U32(\H82f6, \H3b78)

\* the embedded table, each entry as its two 16-bit halves
g_lut_amd ==
  <<
    <<\H0000, \H0001>>, <<\H493c, \H7d27>>, <<\Hf20c, \H0dfe>>, <<\Hba4f, \Hc28e>>, <<\H3da6, \Hd0cb>>, <<\Hddc0, \H152b>>, <<\H1c29, \H1d04>>, <<\H9e4a, \Hddf8>>,
    <<\H740e, \Hef02>>, <<\H39d3, \Hb296>>, <<\H083a, \H6eec>>, <<\H0715, \Hce53>>, <<\Hc49f, \H4f67>>, <<\H47db, \H8317>>, <<\H2ad9, \H1c30>>, <<\H0d3b, \H6092>>,
    <<\H6992, \Hcea2>>, <<\Hc96c, \Hfdc0>>, <<\H7e90, \H8048>>, <<\H878a, \H92a7>>, <<\H1b3d, \H8f29>>, <<\Hdaec, \He73e>>, <<\Hf1d0, \Hf55e>>, <<\Hab7a, \Hff2a>>,
    <<\Ha87a, \Hb8a8>>, <<\H2162, \Hd385>>, <<\H8462, \Hd800>>, <<\H8334, \H8832>>, <<\H71d1, \H11a8>>, <<\H2998, \H47d5>>, <<\Hffd8, \H52c6>>, <<\Hb9e0, \H2b86>>,
    <<\Hdcb1, \H7aa4>>, <<\H18b3, \H3a4e>>, <<\Hf37c, \H5aee>>, <<\Hb6dd, \H949b>>, <<\H6051, \Hd5a2>>, <<\H78d9, \Hccb7>>, <<\H18b0, \Hd4ff>>, <<\Hbac2, \Hfd7b>>,
    <<\H21f3, \Hd99c>>, <<\Ha60c, \He07b>>, <<\H8f15, \H8014>>, <<\Hce7f, \H39f4>>, <<\Ha004, \H57f7>>, <<\H61d8, \H2e56>>, <<\H8d6d, \H2c43>>, <<\Hd270, \Hf1a2>>,
    <<\H00ac, \H29cf>>, <<\Hc619, \H809d>>, <<\He9ad, \Hf796>>, <<\H2b3c, \Hac5d>>, <<\H9663, \H8b34>>, <<\H6586, \H3b64>>, <<\He0e9, \Hf351>>, <<\H1b03, \H397f>>,
    <<\H9af0, \H1f2d>>, <<\Hebb8, \H83bd>>, <<\H2cff, \H42cf>>, <<\Hb3e3, \H2c28>>, <<\H88f2, \H5a3a>>, <<\H064f, \H7f26>>, <<\H4e36, \Hf0b0>>, <<\Hdd7e, \H3b0c>>,
    <<\Hbd6f, \H81f8>>, <<\Hf285, \H651c>>, <<\H91c9, \Hbd4b>>, <<\H1074, \H6f3c>>, <<\H885f, \H087b>>, <<\Hc7a6, \H8855>>, <<\H4c14, \H4932>>, <<\H271d, \H9844>>,
    <<\H5214, \H8f02>>, <<\H8e76, \H6a0c>>, <<\Ha3c6, \Hf37a>>, <<\H93a5, \Hf730>>, <<\Hd7c0, \H557f>>, <<\H6cb0, \H8e5c>>, <<\H63de, \Hd06a>>, <<\H6b74, \H9fb2>>,
    <<\H4d56, \H973c>>, <<\H1393, \He203>>, <<\H9669, \Hc9df>>, <<\Hcec3, \H662e>>, <<\He417, \Hf38a>>, <<\H96c5, \H15bb>>, <<\H4b9e, \H0f71>>, <<\He6fc, \H4e6a>>,
    <<\Hd104, \Hb8fc>>, <<\H8227, \Hbb8a>>, <<\H5b39, \H7730>>, <<\Hb0cd, \H4768>>, <<\He78e, \Hb416>>, <<\H39c7, \Hff35>>, <<\H61ff, \H0e01>>, <<\Hd7a4, \H825c>>,
    <<\H8d96, \H551c>>, <<\H0ab3, \H844b>>, <<\H0bf8, \H0dd2>>, <<\H0167, \Hd312>>, <<\H8821, \Habed>>, <<\Hf607, \H6544>>, <<\H6a45, \Hd2b2>>, <<\H26f6, \Ha60a>>,
    <<\Hd8d2, \H6619>>, <<\Ha741, \Hc1bf>>, <<\Hde87, \H806c>>, <<\H98d8, \Hd9cb>>, <<\H1433, \H8754>>, <<\H49c3, \Hcc9c>>, <<\H5bd2, \H011f>>, <<\H68bc, \He87a>>,
    <<\Hdd07, \H448e>>, <<\H57a3, \Hd037>>, <<\Hdde8, \Hf5b9>>, <<\H6956, \Hfc3b>>, <<\Ha3e3, \He02c>>, <<\H42d9, \H8888>>, <<\Hd73c, \H7bea>>, <<\H3771, \He98f>>,
    <<\H80ff, \H0093>>, <<\Hb42a, \He3d9>>, <<\H8fe4, \Hc34d>>, <<\H2178, \H513a>>, <<\Hdf99, \Hfc11>>, <<\He0ac, \H139e>>, <<\H6c23, \He841>>, <<\H1700, \H76fa>>
  >>
\* g_lut_amd[k] of the source (indices from 0)
Lut(k) ==
  IF k + 1 \in DOMAIN g_lut_amd
  THEN U32(g_lut_amd[k + 1][1], g_lut_amd[k + 1][2])
  ELSE {}  \* a read past the table

\* must be >= 16
LEAF_SIZE_AMD == 7 * 16

\* the n of golden_lut_print_demo_amd
DemoBlocks == 128

VARIABLES
  pat, off, M, len, prev,
  pc, pA, bytes, toAlign, crcA, n, pB, crcB, vA,
  cover, wordReads, crcIn,
  item, callee, results, total, split, M2,
  tbl, R, i, nBlocks

bufVars  == <<pat, off, M, len, prev>>
callVars == <<pc, pA, bytes, toAlign, crcA, n, pB, crcB, vA>>
loadVars == <<cover, wordReads, crcIn>>
mainVars == <<item, callee, results, total, split, M2>>
lutVars  == <<tbl, R, i, nBlocks>>
vars     == <<bufVars, callVars, loadVars, mainVars, lutVars>>

(***************************************************************************)
(* compute_golden_lut_amd                                                  *)
(***************************************************************************)
\* R = R & 1 ? (R >> 1) ^ P : R >> 1, under polynomial poly
LfsrStep(r, poly) == IF 0 \in r THEN Xor(Shr1(r), poly) ELSE Shr1(r)

\* k times LfsrStep (the two halves of the run, one after the other)
RECURSIVE LfsrSteps(_, _, _)
LfsrSteps(r, poly, k) ==
  IF k = 0 THEN r
  ELSE IF k = 1 THEN LfsrStep(r, poly)
  ELSE Then(LfsrSteps(r, poly, k \div 2),
            LAMBDA m : LfsrSteps(m, poly, k - k \div 2))

\* a faulty variant: the inner loop runs 63 times
LutAdvance63(r) == LfsrSteps(r, P, 63)

\* for (j = 0; j < 64; j++) R = R & 1 ? (R >> 1) ^ P : R >> 1;
LutAdvance(r) == LfsrSteps(r, P, 64)

\* a faulty variant: R is advanced before it is stored
LutStoredAfter(r) == LutAdvance(r)

\* tbl[i] = R: the value the iteration stores
LutStored(r) == r

\* the variables of the other routines, while the table is built
IdleCall ==
  /\ pat = 0 /\ off = 0 /\ M = 0 /\ len = 0 /\ prev = {}
  /\ pA = 0 /\ bytes = 0 /\ toAlign = 0 /\ crcA = {} /\ n = 0 /\ pB = 0
  /\ crcB = {} /\ vA = {}
  /\ cover = EmptyBag /\ wordReads = {} /\ crcIn = {}
  /\ item = 0 /\ callee = "none" /\ results = <<>> /\ total = 0
  /\ split = 0 /\ M2 = 0

IdleLut == tbl = <<>> /\ R = {} /\ i = 0 /\ nBlocks = 0

\* uint32_t R = 1; i = 0
InitLut ==
  /\ nBlocks \in (1 .. MaxLutBlocks) \cup {DemoBlocks}
  /\ tbl = <<>>
  /\ R = U32(0, 1)
  /\ i = 0
  /\ pc = "lut"
  /\ IdleCall

\* one iteration of for (i = 0; i < n << 1; ++i)
LutIter ==
  /\ pc = "lut"
  /\ i < 2 * nBlocks
  /\ tbl' = Append(tbl, LutStored(R))
  /\ R' = LutAdvance(R)
  /\ i' = i + 1
  /\ UNCHANGED <<pc, nBlocks, bufVars, pA, bytes, toAlign, crcA, n, pB, crcB, vA,
                 loadVars, mainVars>>

LutDone ==
  /\ pc = "lut"
  /\ ~(i < 2 * nBlocks)
  /\ pc' = "lut_done"
  /\ UNCHANGED <<tbl, R, i, nBlocks, bufVars, pA, bytes, toAlign, crcA, n, pB,
                 crcB, vA, loadVars, mainVars>>

NextLut == LutIter \/ LutDone

SpecLut == InitLut /\ [][NextLut]_vars

(***************************************************************************)
(* x^k mod P(x) in GF(2)[x], computed on polynomials: a polynomial is the  *)
(* set of the exponents of its terms.  P(x) = x^32 + (the terms P encodes),*)
(* and a 32-bit value encodes a polynomial of degree < 32 with bit 31 - e  *)
(* as the coefficient of x^e (the reflected form).                         *)
(***************************************************************************)
Decode(v) == {31 - b : b \in v}
Encode(p) == {31 - e : e \in p}

\* p(x) * x mod P(x)
MulX(p) ==
  LET s == {e + 1 : e \in p}
  IN  IF 32 \in s THEN Xor(s \ {32}, Decode(P)) ELSE s

\* p(x) * x^k mod P(x)
RECURSIVE MulXPow(_, _)
MulXPow(p, k) ==
  IF k = 0 THEN p
  ELSE IF k = 1 THEN MulX(p)
  ELSE Then(MulXPow(p, k \div 2), LAMBDA m : MulXPow(m, k - k \div 2))

\* <<q, q * x^64, q * x^128, ...>>, cnt >= 1 of them
RECURSIVE PowersFrom(_, _)
PowersFrom(q, cnt) ==
  IF cnt = 1 THEN <<q>>
  ELSE Then(PowersFrom(q, cnt \div 2),
            LAMBDA left : left \o PowersFrom(MulXPow(left[Len(left)], 64),
                                             cnt - cnt \div 2))

\* x^(64*k + 31) mod P(x), for k = 0 .. 2*DemoBlocks - 1 (at index k + 1)
PowersOfX31 == PowersFrom({31}, 2 * DemoBlocks)

\* x^(64*(k+1)) mod P(x), for k = 0 .. 2*DemoBlocks - 1 (at index k + 1)
PowersOfX64 == PowersFrom(MulXPow({0}, 64), 2 * DemoBlocks)

\* C5 as first stated: entry i is x^(64*(i+1)) mod P(x), and entry 0 is not
\* the value 1 that R starts from.
C5_AsStated ==
  /\ \A k \in 1 .. Len(tbl) : tbl[k] = Encode(PowersOfX64[k])
  /\ Len(tbl) > 0 => tbl[1] # U32(0, 1)

\* C5, amended: entry i of the table compute_golden_lut_amd writes is the
\* value 1 advanced by 64*i LFSR steps, which in the reflected encoding is
\* x^(64*i + 31) mod P(x); entry 0 is the value 1 itself (x^31).
C5_EntryIsPower ==
  /\ \A k \in 1 .. Len(tbl) : tbl[k] = Encode(PowersOfX31[k])
  /\ Len(tbl) > 0 => tbl[1] = U32(0, 1)

C5_Witness == pc = "lut_done" /\ nBlocks = DemoBlocks /\ Len(tbl) = 2 * DemoBlocks

\* C7: the embedded table is the generated data: g_lut_amd[i] is the value
\* compute_golden_lut_amd writes to tbl[i], for every i in 0..127.
C7_EmbeddedIsGenerated ==
  \A k \in 0 .. 127 : k < Len(tbl) => Lut(k) = tbl[k + 1]

C7_Witness == pc = "lut_done" /\ Len(tbl) >= 128

(***************************************************************************)
(* The buffer.  The routine under test is handed len bytes at address M;   *)
(* byte k of the buffer is byte off + k of content number pat.             *)
(***************************************************************************)
Content(p, k) == (k * k * p + 31 * k + 7 * p + (k \div 3)) % 256

InBuffer(a) == M <= a /\ a < M + len

\* *(uint8_t*)a; a load outside the buffer is recorded in cover and reads 0
ByteAt(a) == IF InBuffer(a) THEN Content(pat, off + (a - M)) ELSE 0

ByteBits(a) == BitsOf(ByteAt(a), 0)

\* *(uint64_t*)a, little-endian
WordAt(a) == UNION {BitsOf(ByteAt(a + j), 8 * j) : j \in 0 .. 7}

(***************************************************************************)
(* The x86 intrinsics.                                                     *)
(***************************************************************************)
\* crc32 r32, r/m8
mm_crc32_u8(crc, v) == LfsrSteps(Xor(crc, v), P_hardware, 8)

\* crc32 r64, r/m64: the low 32 bits of crc are the state, the result is
\* zero-extended
mm_crc32_u64(crc, v) == LfsrSteps(Xor(Low32(crc), v), P_hardware, 64)

\* pclmulqdq with imm8 = 0: the carryless product of the two low quadwords
mm_clmulepi64_si128(a, b) ==
  Then(<<a, b>>, LAMBDA ab :
    {m \in 0 .. 127 :
       Cardinality({k \in ab[1] : k < 64 /\ (m - k) \in ab[2] /\ m - k < 64}) % 2 = 1})

\* movq r64, xmm: the low quadword
mm_cvtsi128_si64(x) == {k \in x : k < 64}

(***************************************************************************)
(* option_5_naive_cpp                                                      *)
(***************************************************************************)
\* R ^= M8[i]; then 8 times R = R & 1 ? (R >> 1) ^ P : R >> 1
NaiveByte(r, a) == LfsrSteps(Xor(r, ByteBits(a)), P_naive, 8)

\* the loop over the bytes at lo .. hi - 1
RECURSIVE NaiveLoop(_, _, _)
NaiveLoop(r, lo, hi) ==
  IF hi <= lo THEN r
  ELSE IF hi - lo = 1 THEN NaiveByte(r, lo)
  ELSE Then(NaiveLoop(r, lo, (lo + hi) \div 2),
            LAMBDA m : NaiveLoop(m, (lo + hi) \div 2, hi))

option_5_naive_cpp(m, b) == NaiveLoop({}, m, m + b)

(***************************************************************************)
(* option_12_hardware_8_bytes                                              *)
(***************************************************************************)
\* the loop over the words M64[lo] .. M64[hi - 1]
RECURSIVE Hw8Loop(_, _, _, _)
Hw8Loop(r, m, lo, hi) ==
  IF hi <= lo THEN r
  ELSE IF hi - lo = 1 THEN mm_crc32_u64(r, WordAt(m + 8 * lo))
  ELSE Then(Hw8Loop(r, m, lo, (lo + hi) \div 2),
            LAMBDA h : Hw8Loop(h, m, (lo + hi) \div 2, hi))

\* for (i = 0; i < bytes >> 3; ++i) R = _mm_crc32_u64(R, M64[i]); return (uint32_t)R
option_12_hardware_8_bytes(m, b) == Low32(Hw8Loop({}, m, 0, b \div 8))

(***************************************************************************)
(* option_14_golden_amd                                                    *)
(***************************************************************************)
\* a faulty variant: prev inverted, as in the line the source comments out
SeedCrcInverted(pv) == (0 .. 31) \ pv

\* uint64_t crcA = prev
SeedCrc(pv) == pv

\* a faulty variant: the distance from the previous multiple of 8
ToAlignDown(p) == p % 8

\* ((uint64_t)-(int64_t)pA) & 7
ToAlign(p) == (0 - p) % 8

\* a faulty variant: no cap at 128 blocks
BlockCountNoCap(b) == b \div 16

\* bytes < 128 * 16 ? bytes >> 4 : 128
BlockCount(b) == IF b < 128 * 16 THEN b \div 16 ELSE 128

\* the case labels X_k(m) expands to, in the order of the text
RECURSIVE X(_, _)
X(k, m) == IF k = 0 THEN <<m>> ELSE X(k - 1, m + 2^(k - 1)) \o X(k - 1, m)

\* {X0(128) X1(126) X2(122) X3(114) X4(98) X5(66) X6(2)}
CRC_ITERS_128_TO_2 ==
  X(0, 128) \o X(1, 126) \o X(2, 122) \o X(3, 114) \o X(4, 98) \o X(5, 66) \o X(6, 2)

\* switch (v): the labels run from case v to the end of the body, falling
\* through; none when no case matches (there is no default)
SwitchFrom(v) ==
  LET L   == CRC_ITERS_128_TO_2
      hit == {k \in 1 .. Len(L) : L[k] = v}
  IN  IF hit = {} THEN <<>>
      ELSE SubSeq(L, CHOOSE k \in hit : \A h \in hit : k <= h, Len(L))

\* pA - 8*(i)
LaneWordA(a, c) == a - 8 * c

\* a faulty variant: lane B one word too low
LaneWordBLow(b, c) == b - 8 * c - 8

\* pB - 8*(i)
LaneWordB(b, c) == b - 8 * c

\* CRC_ITER(i) on the two accumulators st, with pA = a and pB = b
CRC_ITER(st, a, b, c) ==
  [A |-> mm_crc32_u64(st.A, WordAt(LaneWordA(a, c))),
   B |-> mm_crc32_u64(st.B, WordAt(LaneWordB(b, c)))]

\* the cases cs[lo] .. cs[hi], in order
RECURSIVE RunCases(_, _, _, _, _, _)
RunCases(st, a, b, cs, lo, hi) ==
  IF hi < lo THEN st
  ELSE IF hi = lo THEN CRC_ITER(st, a, b, cs[lo])
  ELSE Then(RunCases(st, a, b, cs, lo, (lo + hi) \div 2),
            LAMBDA h : RunCases(h, a, b, cs, (lo + hi) \div 2 + 1, hi))

\* a faulty variant: the table is read one entry too far
MergeConstantNext(k) == Lut(k)

\* g_lut_amd[n - 1]
MergeConstant(k) == Lut(k - 1)

\* a faulty variant: the last word of lane A
MergeWordOfLaneA(a, b) == a - 8

\* pB - 8, the word XORed into the product (pA = a, pB = b)
MergeWord(a, b) == b - 8

\* a faulty variant: the word tail leaves the count alone
WordTailKeepsCount(b) == b

\* bytes -= 8
WordTailCount(b) == b - 8

\* the bytes of the 8-byte loads of a bag of word addresses
BytesOfWords(wb) ==
  LET cnt(w) == IF w \in DOMAIN wb THEN wb[w] ELSE 0
  IN  [x \in UNION {w .. w + 7 : w \in DOMAIN wb} |->
         cnt(x) + cnt(x - 1) + cnt(x - 2) + cnt(x - 3)
         + cnt(x - 4) + cnt(x - 5) + cnt(x - 6) + cnt(x - 7)]

\* entry of option_14_golden_amd(m, b, pv) as call `name`, on byte o onwards
\* of the content: pA = M, crcA = prev, toAlign
Enter(name, m, b, o, pv) ==
  /\ callee' = name
  /\ M' = m /\ len' = b /\ off' = o /\ prev' = pv
  /\ pA' = m
  /\ crcA' = SeedCrc(pv)
  /\ toAlign' = ToAlign(m)
  /\ bytes' = b
  /\ n' = 0 /\ pB' = 0 /\ crcB' = {} /\ vA' = {}
  /\ cover' = EmptyBag /\ wordReads' = {} /\ crcIn' = {}
  /\ pc' = "align"

\* for (; toAlign && bytes; ++pA, --bytes, --toAlign)
\*   crcA = _mm_crc32_u8((uint32_t)crcA, *(uint8_t*)pA);
AlignIter ==
  /\ pc = "align"
  /\ toAlign # 0 /\ bytes # 0
  /\ crcA' = mm_crc32_u8(Low32(crcA), ByteBits(pA))
  /\ pA' = pA + 1
  /\ bytes' = bytes - 1
  /\ toAlign' = toAlign - 1
  /\ cover' = cover (+) SetToBag({pA})
  /\ UNCHANGED <<pc, n, pB, crcB, vA, wordReads, crcIn, bufVars, mainVars, lutVars>>

AlignDone ==
  /\ pc = "align"
  /\ ~(toAlign # 0 /\ bytes # 0)
  /\ pc' = "bulk"
  /\ UNCHANGED <<pA, bytes, toAlign, crcA, n, pB, crcB, vA, loadVars, bufVars,
                 mainVars, lutVars>>

\* one iteration of while (bytes >= LEAF_SIZE_AMD)
BulkIter ==
  /\ pc = "bulk"
  /\ bytes >= LEAF_SIZE_AMD
  /\ LET nn    == BlockCount(bytes)
         a     == pA + 8 * nn
         b     == a + 8 * nn
         cases == SwitchFrom(nn)
         st    == RunCases([A |-> crcA, B |-> {}], a, b, cases, 1, Len(cases))
         cA    == mm_crc32_u64(st.A, WordAt(a - 8))
         vK    == MergeConstant(nn)
         prod  == mm_clmulepi64_si128(cA, vK)
         loads == SetToBag({LaneWordA(a, cases[k]) : k \in 1 .. Len(cases)})
                  (+) SetToBag({LaneWordB(b, cases[k]) : k \in 1 .. Len(cases)})
                  (+) SetToBag({a - 8})
                  (+) SetToBag({MergeWord(a, b)})
     IN  /\ n' = nn
         /\ pB' = b
         /\ crcB' = st.B
         /\ vA' = prod
         /\ crcA' = mm_crc32_u64(st.B, Xor(mm_cvtsi128_si64(prod), WordAt(MergeWord(a, b))))
         /\ bytes' = bytes - 16 * nn
         /\ pA' = b
         /\ crcIn' = crcA
         /\ wordReads' = wordReads \cup DOMAIN loads
         /\ cover' = cover (+) BytesOfWords(loads)
  /\ UNCHANGED <<pc, toAlign, bufVars, mainVars, lutVars>>

BulkDone ==
  /\ pc = "bulk"
  /\ ~(bytes >= LEAF_SIZE_AMD)
  /\ pc' = "words"
  /\ UNCHANGED <<pA, bytes, toAlign, crcA, n, pB, crcB, vA, loadVars, bufVars,
                 mainVars, lutVars>>

\* for (; bytes >= 8; bytes -= 8, pA += 8) crcA = _mm_crc32_u64(crcA, *(uint64_t*)(pA));
WordIter ==
  /\ pc = "words"
  /\ bytes >= 8
  /\ crcA' = mm_crc32_u64(crcA, WordAt(pA))
  /\ bytes' = WordTailCount(bytes)
  /\ pA' = pA + 8
  /\ wordReads' = wordReads \cup {pA}
  /\ cover' = cover (+) BytesOfWords(SetToBag({pA}))
  /\ UNCHANGED <<pc, toAlign, n, pB, crcB, vA, crcIn, bufVars, mainVars, lutVars>>

WordDone ==
  /\ pc = "words"
  /\ ~(bytes >= 8)
  /\ pc' = "tail"
  /\ UNCHANGED <<pA, bytes, toAlign, crcA, n, pB, crcB, vA, loadVars, bufVars,
                 mainVars, lutVars>>

\* for (; bytes; --bytes, ++pA) crcA = _mm_crc32_u8((uint32_t)crcA, *(uint8_t*)(pA));
ByteIter ==
  /\ pc = "tail"
  /\ bytes # 0
  /\ crcA' = mm_crc32_u8(Low32(crcA), ByteBits(pA))
  /\ bytes' = bytes - 1
  /\ pA' = pA + 1
  /\ cover' = cover (+) SetToBag({pA})
  /\ UNCHANGED <<pc, toAlign, n, pB, crcB, vA, wordReads, crcIn, bufVars,
                 mainVars, lutVars>>

\* return (uint32_t)crcA, to the caller, which goes on to its next call
Return ==
  /\ pc = "tail"
  /\ bytes = 0
  /\ pc' = "done"
  /\ results' = results @@ (callee :> Low32(crcA))
  /\ item' = item + 1
  /\ UNCHANGED <<pA, bytes, toAlign, crcA, n, pB, crcB, vA, loadVars, bufVars,
                 callee, total, split, M2, lutVars>>

option_14_golden_amd ==
  \/ AlignIter \/ AlignDone
  \/ BulkIter \/ BulkDone
  \/ WordIter \/ WordDone
  \/ ByteIter \/ Return

(***************************************************************************)
(* main: the items are run one after the other on the same buffer.  Of the *)
(* items of main, those whose code is in this repository's sources.        *)
(***************************************************************************)
MidLens == {LEAF_SIZE_AMD - 1, LEAF_SIZE_AMD, LEAF_SIZE_AMD + 1,
            LEAF_SIZE_AMD + 15, 2 * LEAF_SIZE_AMD}

\* one full block of 128 (127 blocks and a tail after an alignment prefix),
\* and enough for a second iteration after any alignment prefix
BigLens == {128 * 16, 128 * 16 + LEAF_SIZE_AMD + 7}

Lens == (0 .. MaxSmallLen) \cup MidLens \cup BigLens

Init ==
  /\ pat \in 1 .. NumPatterns
  /\ total \in Lens
  /\ \E al \in 0 .. 7 : M = 64 + al
  /\ len = total /\ off = 0 /\ prev = {}
  /\ pc = "idle" /\ callee = "none"
  /\ pA = 0 /\ bytes = 0 /\ toAlign = 0 /\ crcA = {} /\ n = 0 /\ pB = 0
  /\ crcB = {} /\ vA = {}
  /\ cover = EmptyBag /\ wordReads = {} /\ crcIn = {}
  /\ item = 1 /\ results = <<>> /\ split = 0 /\ M2 = 0
  /\ IdleLut

\* result = item.m_fNoPrev(M, kBytes), for option_5_naive_cpp
MainOption5 ==
  /\ pc = "idle" /\ item = 1
  /\ results' = results @@ ("option_5_naive_cpp" :> option_5_naive_cpp(M, len))
  /\ item' = 2
  /\ UNCHANGED <<callVars, loadVars, bufVars, callee, total, split, M2, lutVars>>

\* result = item.m_fNoPrev(M, kBytes), for option_12_hardware_8_bytes
MainOption12 ==
  /\ pc = "idle" /\ item = 2
  /\ results' = results @@ ("option_12_hardware_8_bytes" :> option_12_hardware_8_bytes(M, len))
  /\ item' = 3
  /\ UNCHANGED <<callVars, loadVars, bufVars, callee, total, split, M2, lutVars>>

\* result = item.m_fPrev(M, kBytes, 0), for option_14_golden_amd
MainOption14 ==
  /\ pc = "idle" /\ item = 3
  /\ Enter("option_14_golden_amd", M, total, 0, {})
  /\ UNCHANGED <<pat, item, results, total, split, M2, lutVars>>

Next == MainOption5 \/ MainOption12 \/ MainOption14 \/ option_14_golden_amd

Spec == Init /\ [][Next]_vars

(***************************************************************************)
(* A streaming caller: the whole content in one call, then the same        *)
(* content in two calls, the second one seeded with the result of the      *)
(* first.  The second piece is handed over at an address of its own.       *)
(***************************************************************************)
\* the long content: each half goes through a bulk iteration after any
\* alignment prefix
SeedLong == 2 * (LEAF_SIZE_AMD + 7)

SeedLens == (0 .. MaxSeedLen) \cup {SeedLong}

\* every cut of a short content; of the long one, a cut that leaves the bulk
\* iteration to the second piece, one that leaves one to each, and none
Splits(t) ==
  IF t <= MaxSeedLen THEN 0 .. t
  ELSE {3, t \div 2, t}

InitSeed ==
  /\ pat \in 1 .. NumPatterns
  /\ total \in SeedLens
  /\ split \in Splits(total)
  /\ \E al \in 0 .. 7 : M = 64 + al
  /\ \E al \in 0 .. 7 : M2 = 4096 + al
  /\ len = total /\ off = 0 /\ prev = {}
  /\ pc = "idle" /\ callee = "none"
  /\ pA = 0 /\ bytes = 0 /\ toAlign = 0 /\ crcA = {} /\ n = 0 /\ pB = 0
  /\ crcB = {} /\ vA = {}
  /\ cover = EmptyBag /\ wordReads = {} /\ crcIn = {}
  /\ item = 1 /\ results = <<>>
  /\ IdleLut

\* option_14_golden_amd(b1 ++ b2, total)
SeedWhole ==
  /\ pc = "idle" /\ item = 1
  /\ Enter("whole", M, total, 0, {})
  /\ UNCHANGED <<pat, item, results, total, split, M2, lutVars>>

\* option_14_golden_amd(b1, split)
SeedFirst ==
  /\ pc = "done" /\ item = 2
  /\ Enter("first", M, split, 0, {})
  /\ UNCHANGED <<pat, item, results, total, split, M2, lutVars>>

\* option_14_golden_amd(b2, total - split, prev = the result of the first call)
SeedSecond ==
  /\ pc = "done" /\ item = 3
  /\ Enter("second", M2, total - split, split, results["first"])
  /\ UNCHANGED <<pat, item, results, total, split, M2, lutVars>>

NextSeed == SeedWhole \/ SeedFirst \/ SeedSecond \/ option_14_golden_amd

SpecSeed == InitSeed /\ [][NextSeed]_vars

(***************************************************************************)
(* Claims about main's run (Spec).                                         *)
(***************************************************************************)
Returned14 == pc = "done" /\ callee = "option_14_golden_amd"

\* C1: with prev = 0, option_14_golden_amd returns the value the bit-serial
\* option_5_naive_cpp returns for the same bytes, for every length and every
\* alignment of M.
C1_GoldenIsBitSerial ==
  Returned14 => results["option_14_golden_amd"] = results["option_5_naive_cpp"]

\* two bulk iterations (128 blocks, then 7), after an alignment prefix
C1_Witness ==
  /\ Returned14
  /\ M % 8 = 3
  /\ len = 128 * 16 + LEAF_SIZE_AMD + 7
  /\ n = 7
  /\ results["option_14_golden_amd"] = results["option_5_naive_cpp"]
  /\ results["option_14_golden_amd"] # {}

\* C3 as stated: option_12_hardware_8_bytes returns the bit-serial value for
\* every length, also one that is no multiple of 8.
C3_Hardware8IsBitSerial ==
  item > 2 =>
    results["option_12_hardware_8_bytes"] = results["option_5_naive_cpp"]

\* C6: in every bulk iteration 7 <= n <= 128 and n*16 <= the remaining
\* bytes, so n - 1 indexes the 128-entry table and the switch has a case n.
C6_BlockCountInRange ==
  (pc = "bulk" /\ bytes >= LEAF_SIZE_AMD) =>
    LET nn == BlockCount(bytes)
    IN  /\ LEAF_SIZE_AMD \div 16 <= nn /\ nn <= 128
        /\ nn * 16 <= bytes
        /\ nn \in DOMAIN g_lut_amd
        /\ Len(g_lut_amd) = 128
        /\ \E k \in DOMAIN CRC_ITERS_128_TO_2 : CRC_ITERS_128_TO_2[k] = nn

C6_Witness == pc = "bulk" /\ n = 128 /\ bytes >= LEAF_SIZE_AMD /\ BlockCount(bytes) = 7

\* n words from address a, one after the other, from accumulator c
RECURSIVE CrcOfWords(_, _, _)
CrcOfWords(c, a, k) ==
  IF k <= 0 THEN c
  ELSE IF k = 1 THEN mm_crc32_u64(c, WordAt(a))
  ELSE Then(CrcOfWords(c, a, k \div 2),
            LAMBDA m : CrcOfWords(m, a + 8 * (k \div 2), k - k \div 2))

\* the state a bulk iteration leaves
AfterBulkIter == pc = "bulk" /\ n > 0 /\ pA = pB

\* the merge of the last bulk iteration, with the data word at address w:
\* accA is lane A's accumulator over all its n words, accB lane B's, started
\* from 0, over its first n - 1 words
MergeIs(w) ==
  \E accA \in {CrcOfWords(crcIn, pB - 16 * n, n)} :
  \E accB \in {CrcOfWords({}, pB - 8 * n, n - 1)} :
  \E prod \in {mm_clmulepi64_si128(Lut(n - 1), accA)} :
  \E seed \in {Xor(mm_cvtsi128_si64(prod), WordAt(w))} :
    /\ crcB = accB
    /\ crcA = mm_crc32_u64(accB, seed)

\* C8 as stated: the word XORed into the product is lane A's last word.
C8_MergeUsesLaneAWord == AfterBulkIter => MergeIs(pB - 8 * n - 8)

\* C8, amended: mergedSeed = clmul(ConstantTable[n-1], accA) XOR the final
\* 8-byte word of lane B, and the new accumulator is
\* nativeStep64(accB, mergedSeed).
C8_MergeUsesLaneBWord == AfterBulkIter => MergeIs(pB - 8)

C8_Witness == AfterBulkIter /\ n = 128 /\ MergeIs(pB - 8) /\ ~MergeIs(pB - 8 * n - 8)

\* C9: after the alignment prefix the position is a multiple of 8 whenever
\* a byte remains, at the head of every bulk and word-tail iteration, and
\* every 8-byte load is at a multiple of 8.
C9_WordLoadsAligned ==
  /\ (pc \in {"bulk", "words"} /\ bytes > 0) => pA % 8 = 0
  /\ \A w \in wordReads : w % 8 = 0

C9_Witness ==
  /\ Returned14 /\ M % 8 = 5 /\ n = 7
  /\ Cardinality(wordReads) > 2 * 128
  /\ \A w \in wordReads : w % 8 = 0

\* C10: at the head of every loop iteration position - start + remaining is
\* the length; every load is inside the buffer; the bytes before the
\* position have been loaded exactly once each and no other, so at the
\* return every byte of the buffer has been loaded exactly once.
C10_ByteAccounting ==
  pc \in {"align", "bulk", "words", "tail", "done"} =>
    /\ bytes >= 0
    /\ (pA - M) + bytes = len
    /\ DOMAIN cover = M .. (pA - 1)
    /\ \A a \in DOMAIN cover : InBuffer(a) /\ cover[a] = 1
    /\ pc = "done" => DOMAIN cover = M .. (M + len - 1)

C10_Witness ==
  /\ Returned14 /\ M % 8 = 1 /\ n = 7 /\ len = 128 * 16 + LEAF_SIZE_AMD + 7
  /\ DOMAIN cover = M .. (M + len - 1)
  /\ \A a \in DOMAIN cover : cover[a] = 1

\* the loops still ahead of the call at pc
LoopsLeft(p) ==
  CASE p = "align" -> 4 [] p = "bulk" -> 3 [] p = "words" -> 2
    [] p = "tail" -> 1 [] OTHER -> 0

\* C4: every iteration of the four loops (alignment prefix, bulk folding,
\* word tail, byte tail) lowers the remaining count, which never goes below
\* 0, every other step of the call leaves a loop behind, and the call
\* returns with the count at 0: the call returns for every length and
\* alignment.
C4_Terminates ==
  [][(pc \in {"align", "bulk", "words", "tail"}) =>
       ( (pc' = pc => (bytes' < bytes /\ bytes' >= 0))
         /\ (pc' # pc => (LoopsLeft(pc') < LoopsLeft(pc) /\ bytes' = bytes))
         /\ (pc' = "done" => bytes' = 0) )]_vars

\* a call that went through all four loops has returned
C4_Witness ==
  /\ Returned14 /\ bytes = 0 /\ M % 8 = 7 /\ n = 7
  /\ total = 128 * 16 + LEAF_SIZE_AMD + 7
  /\ pA = M + total

(***************************************************************************)
(* The claim about the streaming caller (SpecSeed).                        *)
(***************************************************************************)
\* C2: option_14_golden_amd(b1 ++ b2, prev = 0) equals
\* option_14_golden_amd(b2, prev = option_14_golden_amd(b1, prev = 0)), for
\* every cut and every alignment of either piece, with no inversion.
C2_SeedComposes == item = 4 => results["second"] = results["whole"]

\* the second piece, placed at another address, goes through a bulk iteration
C2_Witness ==
  /\ item = 4 /\ pc = "done"
  /\ total = SeedLong /\ split = total \div 2
  /\ M = M2 /\ M2 % 8 = 6 /\ off = split
  /\ results["first"] # {} /\ results["second"] = results["whole"]
  /\ n = 7

=============================================================================
